---------------------------- MODULE Spec2Model ----------------------------
(***************************************************************************)
(* A model of experiment_utils.py (melody contour classification helpers). *)
(*                                                                         *)
(* The file holds independent functions, so the model has one              *)
(* specification per function family:                                      *)
(*   SpecThr    get_best_threshold                                         *)
(*   SpecProbs  contour_probs                                              *)
(*   SpecLabel  label_all_contours                                         *)
(*   SpecStats  olap_stats                                                 *)
(*   Spec       compute_all_overlaps / get_data_files, run as written      *)
(*   SpecOrder  the per-track steps of compute_all_overlaps in any order   *)
(* Variables that a specification does not use stay at their idle value.   *)
(*                                                                         *)
(* Numbers: counts are integers.  The rates and F scores of                *)
(* get_best_threshold are float64 values, rounded as numpy rounds them.    *)
(* Overlaps and probabilities are exact fractions [n, d], with d = 0 for   *)
(* the two IEEE values a division by zero produces (0/0 = nan, x/0 = inf). *)
(***************************************************************************)
EXTENDS Integers, Sequences, FiniteSets, TLC

VARIABLES
    \* get_best_threshold
    Y_ref,            \* argument: reference labels
    Y_pred_score,     \* argument: predicted scores
    plot,             \* argument: draw the ROC curve (default True)
    thr_pc,           \* "call" | "show" | "returned" | "raised"
    fpr, tpr, thresholds,             \* locals of get_best_threshold
    P, R, f_scores,
    max_fscore, best_threshold,
    thr_ret,          \* the returned pair, or None
    \* contour_probs
    clf,              \* argument: the classifier
    contour_data,     \* argument: the caller's DataFrame (changed in place)
    prob_pc,          \* "call" | "returned" | "raised"
    prob_ret,         \* the returned DataFrame, or None
    \* label_all_contours, olap_stats, compute_all_overlaps
    train_contour_dict,   \* track id -> DataFrame of contours
    valid_contour_dict,
    test_contour_dict,
    olap_thresh,      \* argument of the latest label_all_contours call
    lab_pc,           \* "unlabelled" | "labelled"
    stats_pc,         \* "call" | "returned"
    stats_ret,        \* (partial_olap_stats, zero_olap_stats), or None
    \* compute_all_overlaps
    train_tracks, valid_tracks, test_tracks, meltype,   \* arguments
    fs,               \* the data files that exist (paths)
    b_pc,             \* "train" | "valid" | "test" | "returned" | "raised"
    b_i,              \* position of the running loop in its list (from 1)
    pending,          \* SpecOrder: the (list, position) steps not yet run
    cdat, adat,       \* locals: the data of the track last loaded
    valid_annot_dict, test_annot_dict,
    loaded,           \* history: the tracks get_data_files was called for
    build_ret         \* the five returned maps, or None

thrVars  == <<Y_ref, Y_pred_score, plot, thr_pc, fpr, tpr, thresholds, P, R,
              f_scores, max_fscore, best_threshold, thr_ret>>
probVars == <<clf, contour_data, prob_pc, prob_ret>>

dictVars == <<train_contour_dict, valid_contour_dict, test_contour_dict>>
labVars  == <<olap_thresh, lab_pc>>
statVars == <<stats_pc, stats_ret>>

argVars  == <<train_tracks, valid_tracks, test_tracks, meltype, fs>>
bldVars  == <<b_pc, b_i, pending, cdat, adat, valid_annot_dict, test_annot_dict,
              loaded, build_ret>>

vars == <<thrVars, probVars, dictVars, labVars, statVars, argVars, bldVars>>

None == [none |-> TRUE]

-----------------------------------------------------------------------------
(* Bounds of the model.                                                    *)

\* Longest label / score sequence handed to get_best_threshold.
MaxN == 4

\* Most rows of a DataFrame (contours of one track).
MaxRows == 3

\* Class probabilities are the multiples of 1/ProbDen in [0, 1].
ProbDen == 2

\* Most contours of one track in the maps handed to label_all_contours.
MaxContours == 2

\* Most track ids in the three lists of compute_all_overlaps, together.
MaxTracks == 3

\* Most data files missing from the disk.
MaxMissing == 1

-----------------------------------------------------------------------------
(* Fractions with the IEEE special values of a float division: the         *)
(* overlaps, the class probabilities and the statistics of describe().     *)

Frac(n, d) == [n |-> n, d |-> d]
NaN  == Frac(0, 0)
Inf  == Frac(1, 0)
Zero == Frac(0, 1)
One  == Frac(1, 1)

IsNaN(x) == x.n = 0 /\ x.d = 0
IsNum(x) == x.d > 0

\* x <= y as IEEE compares: FALSE as soon as one side is nan.
FLeq(x, y) == /\ ~IsNaN(x)
              /\ ~IsNaN(y)
              /\ IF x.d = 0 THEN y.d = 0 ELSE (y.d = 0 \/ x.n * y.d <= y.n * x.d)

FEq(x, y) == FLeq(x, y) /\ FLeq(y, x)

FAdd(x, y) == IF IsNaN(x) \/ IsNaN(y) THEN NaN
              ELSE IF x.d = 0 \/ y.d = 0 THEN Inf
              ELSE Frac(x.n * y.d + y.n * x.d, x.d * y.d)

\* Division of non-negative floats: 0/0 = nan, x/0 = inf (numpy warns, it
\* does not raise).
FDiv(x, y) == IF IsNaN(x) \/ IsNaN(y) THEN NaN
              ELSE IF y.d = 0 THEN (IF x.d = 0 THEN NaN ELSE Zero)
              ELSE IF x.d = 0 THEN Inf
              ELSE IF y.n = 0 THEN (IF x.n = 0 THEN NaN ELSE Inf)
              ELSE Frac(x.n * y.d, x.d * y.n)

-----------------------------------------------------------------------------
(* Sequence helpers.                                                       *)

Range(s) == {s[i] : i \in DOMAIN s}

SeqsUpTo(S, lo, hi) == UNION {[1..k -> S] : k \in lo..hi}

SetMax(S) == CHOOSE m \in S : \A x \in S : x <= m
SetMin(S) == CHOOSE m \in S : \A x \in S : m <= x

RECURSIVE SortDesc(_)
SortDesc(S) == IF S = {} THEN <<>>
               ELSE LET m == SetMax(S) IN <<m>> \o SortDesc(S \ {m})

RECURSIVE SortAsc(_)
SortAsc(S) == IF S = {} THEN <<>>
              ELSE LET m == SetMin(S) IN <<m>> \o SortAsc(S \ {m})

-----------------------------------------------------------------------------
(* Idle values of the variables a specification does not use.              *)

IdleProbs ==
    /\ clf = None /\ contour_data = <<>> /\ prob_pc = "idle" /\ prob_ret = None

IdleDicts ==
    /\ train_contour_dict = <<>> /\ valid_contour_dict = <<>> /\ test_contour_dict = <<>>

IdleLabel == olap_thresh = None /\ lab_pc = "idle"

IdleStats == stats_pc = "idle" /\ stats_ret = None

IdleBuild ==
    /\ train_tracks = <<>> /\ valid_tracks = <<>> /\ test_tracks = <<>>
    /\ meltype = 0 /\ fs = {}
    /\ b_pc = "idle" /\ b_i = 0 /\ pending = {}
    /\ cdat = None /\ adat = None
    /\ valid_annot_dict = <<>> /\ test_annot_dict = <<>>
    /\ loaded = <<>> /\ build_ret = None

-----------------------------------------------------------------------------
(* numpy float64 arithmetic, for the rates and F scores of                 *)
(* get_best_threshold (lines 240-246).  Every operation there is the exact *)
(* result rounded to a 53-bit significand, ties to even; the rounding      *)
(* decides which of two nearly equal F scores argmax takes, so it is       *)
(* computed bit for bit.  A significand does not fit a 32-bit integer, so  *)
(* naturals are kept as sequences of limbs, least significant first, no    *)
(* leading zero limb (the empty sequence is 0).                            *)
(* The values stay in [2^-60, 2], far from overflow and from subnormals,   *)
(* and are never negative.                                                 *)

\* Bits of one limb.
LimbBits == 15
Base == 2^LimbBits

\* Bits of a float64 significand.
Precision == 53

BLimb(a, i) == IF i <= Len(a) THEN a[i] ELSE 0

RECURSIVE BNorm(_)
BNorm(a) == IF a # <<>> /\ a[Len(a)] = 0 THEN BNorm(SubSeq(a, 1, Len(a) - 1)) ELSE a

RECURSIVE BOfInt(_)
BOfInt(n) == IF n = 0 THEN <<>> ELSE <<n % Base>> \o BOfInt(n \div Base)

RECURSIVE BAddFrom(_, _, _, _)
BAddFrom(a, b, i, carry) ==
    IF i > Len(a) /\ i > Len(b) THEN (IF carry = 0 THEN <<>> ELSE <<carry>>)
    ELSE LET s == BLimb(a, i) + BLimb(b, i) + carry
         IN  <<s % Base>> \o BAddFrom(a, b, i + 1, s \div Base)

BAdd(a, b) == BAddFrom(a, b, 1, 0)

\* a - b for a >= b.
RECURSIVE BSubFrom(_, _, _, _)
BSubFrom(a, b, i, borrow) ==
    IF i > Len(a) THEN <<>>
    ELSE LET s == a[i] - BLimb(b, i) - borrow
         IN  <<(s + Base) % Base>> \o BSubFrom(a, b, i + 1, IF s < 0 THEN 1 ELSE 0)

BSub(a, b) == BNorm(BSubFrom(a, b, 1, 0))

RECURSIVE BLeqFrom(_, _, _)
BLeqFrom(a, b, i) ==
    IF i = 0 THEN TRUE
    ELSE IF a[i] # b[i] THEN a[i] < b[i]
    ELSE BLeqFrom(a, b, i - 1)

BLeq(a, b) == IF Len(a) # Len(b) THEN Len(a) < Len(b) ELSE BLeqFrom(a, b, Len(a))

\* a times one limb k.
RECURSIVE BMulLimb(_, _, _, _)
BMulLimb(a, k, i, carry) ==
    IF i > Len(a) THEN (IF carry = 0 THEN <<>> ELSE <<carry>>)
    ELSE LET s == a[i] * k + carry
         IN  <<s % Base>> \o BMulLimb(a, k, i + 1, s \div Base)

RECURSIVE BMulFrom(_, _, _)
BMulFrom(a, b, j) ==
    IF j > Len(b) THEN <<>>
    ELSE BAdd(BMulLimb(a, b[j], 1, 0), <<0>> \o BMulFrom(a, b, j + 1))

BMul(a, b) == BNorm(BMulFrom(a, b, 1))

RECURSIVE BPow2(_)
BPow2(k) == IF k < LimbBits THEN <<2^k>> ELSE <<0>> \o BPow2(k - LimbBits)

RECURSIVE IntBitLen(_)
IntBitLen(n) == IF n = 0 THEN 0 ELSE 1 + IntBitLen(n \div 2)

\* Number of bits of a > 0.
BBitLen(a) == (Len(a) - 1) * LimbBits + IntBitLen(a[Len(a)])

BIsOdd(a) == a # <<>> /\ a[1] % 2 = 1

\* a \div 2.
RECURSIVE BHalfFrom(_, _)
BHalfFrom(a, i) ==
    IF i > Len(a) THEN <<>>
    ELSE <<(a[i] \div 2) + (BLimb(a, i + 1) % 2) * (Base \div 2)>> \o BHalfFrom(a, i + 1)

BHalf(a) == BNorm(BHalfFrom(a, 1))

\* One step of the division by doubling: h is the quotient and remainder
\* of a by 2d.
BDivStep(h, d) ==
    IF BLeq(d, h.r) THEN [q |-> BAdd(BAdd(h.q, h.q), <<1>>), r |-> BSub(h.r, d)]
    ELSE [q |-> BAdd(h.q, h.q), r |-> h.r]

\* Quotient and remainder of a by d > 0 when the quotient is one limb, by
\* doubling d.
RECURSIVE BDivLimb(_, _)
BDivLimb(a, d) ==
    IF ~BLeq(d, a) THEN [q |-> <<>>, r |-> a]
    ELSE BDivStep(BDivLimb(a, BAdd(d, d)), d)

\* The quotient hq of the higher limbs, with the next limb l.q under it.
BDivJoin(hq, l) == [q |-> <<BLimb(l.q, 1)>> \o hq, r |-> l.r]

BDivNext(h, d) == BDivJoin(h.q, BDivLimb(h.r, d))

\* Quotient and remainder of a by d > 0: long division, one limb of the
\* quotient at a time.
RECURSIVE BDivMod(_, _)
BDivMod(a, d) ==
    IF ~BLeq(<<0>> \o d, a) THEN BDivLimb(a, d)
    ELSE BDivNext(BDivMod(a, <<0>> \o d), d)

\* A float64 that is not negative: the number m * 2^e with m = 0 (and
\* e = 0) or 2^52 <= m < 2^53, or one of the special values.
Flt(m, e) == [k |-> "num", m |-> m, e |-> e]
FltNaN  == [k |-> "nan", m |-> <<>>, e |-> 0]
FltInf  == [k |-> "inf", m |-> <<>>, e |-> 0]
FltZero == Flt(<<>>, 0)

FltIsNaN(x)  == x.k = "nan"
FltIsNum(x)  == x.k = "num"
FltIsZero(x) == x.k = "num" /\ x.m = <<>>

\* m * 2^e with m < 2^53, or the next power of two when m has reached 2^53.
FltCarry(m, e) ==
    IF m = BPow2(Precision) THEN Flt(BPow2(Precision - 1), e + 1) ELSE Flt(m, e)

FltUp(m, up, e) == IF up THEN FltCarry(BAdd(m, <<1>>), e) ELSE Flt(m, e)

\* qr is the quotient (53 or 54 bits) and the remainder of a division by d;
\* the quotient is worth qr.q * 2^e.  Round to 53 bits, ties to even: up
\* when what is dropped is more than half a unit, or is half a unit and the
\* significand kept is odd.
FltPick(qr, d, e) ==
    IF BLeq(BPow2(Precision), qr.q)
    THEN FltUp(BHalf(qr.q),
               BIsOdd(qr.q) /\ (qr.r # <<>> \/ BIsOdd(BHalf(qr.q))),
               e + 1)
    ELSE FltUp(qr.q,
               \/ ~BLeq(BAdd(qr.r, qr.r), d)
               \/ BAdd(qr.r, qr.r) = d /\ BIsOdd(qr.q),
               e)

FltQuot(n, d, e) == FltPick(BDivMod(n, d), d, e)

\* num / (den * 2^e) has 53 or 54 bits before the point.
FltScale(num, den, e) ==
    FltQuot(IF e < 0 THEN BMul(num, BPow2(-e)) ELSE num,
            IF e > 0 THEN BMul(den, BPow2(e)) ELSE den,
            e)

\* The float64 nearest to num / den (den > 0), ties to the even significand.
FltRound(num, den) ==
    IF num = <<>> THEN FltZero
    ELSE FltScale(num, den, BBitLen(num) - BBitLen(den) - Precision)

\* x as the fraction FltNum(x) / FltDen(x).
FltNum(x) == IF x.e > 0 THEN BMul(x.m, BPow2(x.e)) ELSE x.m
FltDen(x) == IF x.e < 0 THEN BPow2(-x.e) ELSE <<1>>

FltOfInt(n) == FltRound(BOfInt(n), <<1>>)
FltOne == Flt(BPow2(Precision - 1), 1 - Precision)
FltTwo == Flt(BPow2(Precision - 1), 2 - Precision)

\* x <= y as IEEE compares: FALSE as soon as one side is nan.
FltLeq(x, y) ==
    /\ ~FltIsNaN(x)
    /\ ~FltIsNaN(y)
    /\ IF x.k = "inf" THEN y.k = "inf"
       ELSE IF y.k = "inf" \/ x.m = <<>> THEN TRUE
       ELSE IF y.m = <<>> THEN FALSE
       ELSE IF x.e # y.e THEN x.e < y.e
       ELSE BLeq(x.m, y.m)

FltAdd(x, y) ==
    IF FltIsNaN(x) \/ FltIsNaN(y) THEN FltNaN
    ELSE IF x.k = "inf" \/ y.k = "inf" THEN FltInf
    ELSE FltRound(BAdd(BMul(FltNum(x), FltDen(y)), BMul(FltNum(y), FltDen(x))),
                  BMul(FltDen(x), FltDen(y)))

\* x - y for x >= y (used on 1 - fpr, fpr nan or in [0, 1]).
FltSub(x, y) ==
    IF FltIsNaN(x) \/ FltIsNaN(y) THEN FltNaN
    ELSE FltRound(BSub(BMul(FltNum(x), FltDen(y)), BMul(FltNum(y), FltDen(x))),
                  BMul(FltDen(x), FltDen(y)))

FltMul(x, y) ==
    IF FltIsNaN(x) \/ FltIsNaN(y) THEN FltNaN
    ELSE IF x.k = "inf" \/ y.k = "inf"
         THEN (IF FltIsZero(x) \/ FltIsZero(y) THEN FltNaN ELSE FltInf)
    ELSE FltRound(BMul(FltNum(x), FltNum(y)), BMul(FltDen(x), FltDen(y)))

\* 0/0 = nan and x/0 = inf: numpy warns, it does not raise.
FltDiv(x, y) ==
    IF FltIsNaN(x) \/ FltIsNaN(y) THEN FltNaN
    ELSE IF y.k = "inf" THEN (IF x.k = "inf" THEN FltNaN ELSE FltZero)
    ELSE IF x.k = "inf" THEN FltInf
    ELSE IF FltIsZero(y) THEN (IF FltIsZero(x) THEN FltNaN ELSE FltInf)
    ELSE FltRound(BMul(FltNum(x), FltDen(y)), BMul(FltDen(x), FltNum(y)))

-----------------------------------------------------------------------------
(* sklearn.metrics.roc_curve, as called at experiment_utils.py:240-241.    *)
(* The library is not part of the repository; its releases differ in three *)
(* places, and the call fixes none of them, so a build is one of RocImpls: *)
(*   drop    collinear points are dropped (drop_intermediate, 0.17 on)     *)
(*   origin  the (0,0) point is added only when the curve does not start   *)
(*           at fps = 0 ("if_fps", before 0.20) or always ("always")       *)
(*   top     the threshold of the added point: max score + 1 ("plus1",     *)
(*           before 1.3) or infinity ("inf")                               *)

pos_label == 1

RocImpls == { [drop |-> FALSE, origin |-> "if_fps", top |-> "plus1"],
              [drop |-> TRUE,  origin |-> "if_fps", top |-> "plus1"],
              [drop |-> TRUE,  origin |-> "always", top |-> "plus1"],
              [drop |-> TRUE,  origin |-> "always", top |-> "inf"] }

Thr(score, kind) == [score |-> score, kind |-> kind]

\* One point per distinct score, scores decreasing: the counts of negatives
\* (fps) and positives (tps) scored at or above it.  A label other than
\* pos_label counts as a negative (y_true == pos_label).
binary_clf_curve(y, s) ==
    LET vals == SortDesc(Range(s))
    IN  [k \in 1..Len(vals) |->
            [fps |-> Cardinality({i \in DOMAIN s : s[i] >= vals[k] /\ y[i] # pos_label}),
             tps |-> Cardinality({i \in DOMAIN s : s[i] >= vals[k] /\ y[i] = pos_label}),
             thr |-> Thr(vals[k], "score")]]

\* drop_intermediate: keep the two ends and every point where the second
\* difference of fps or of tps is not zero.
drop_intermediate(pts) ==
    LET n    == Len(pts)
        keep == {k \in 1..n :
                    \/ k = 1
                    \/ k = n
                    \/ pts[k-1].fps - 2 * pts[k].fps + pts[k+1].fps # 0
                    \/ pts[k-1].tps - 2 * pts[k].tps + pts[k+1].tps # 0}
        idx  == SortAsc(keep)
    IN  [j \in 1..Len(idx) |-> pts[idx[j]]]

add_origin(pts, impl) ==
    IF impl.origin = "always" \/ pts[1].fps # 0
    THEN <<[fps |-> 0, tps |-> 0, thr |-> Thr(pts[1].thr.score, impl.top)]>> \o pts
    ELSE pts

\* The quotients count / total that the bounds allow, each computed once.
RateMemo ==
    [total \in 1..MaxN |->
        [count \in 0..total |-> FltDiv(FltOfInt(count), FltOfInt(total))]]

\* fps / fps[-1], or an all-nan array (with a warning) when there is no
\* negative sample; the same for tps.
rate(count, total) == IF total <= 0 THEN FltNaN ELSE RateMemo[total][count]

roc_curve(y, s, impl) ==
    LET raw == binary_clf_curve(y, s)
        cut == IF impl.drop /\ Len(raw) > 2 THEN drop_intermediate(raw) ELSE raw
        pts == add_origin(cut, impl)
        n   == Len(pts)
    IN  [fpr        |-> [k \in 1..n |-> rate(pts[k].fps, pts[n].fps)],
         tpr        |-> [k \in 1..n |-> rate(pts[k].tps, pts[n].tps)],
         thresholds |-> [k \in 1..n |-> pts[k].thr]]

-----------------------------------------------------------------------------
(* get_best_threshold (experiment_utils.py:239-262).                       *)

\* numpy.argmax over floats: the first index holding the maximum, a nan
\* counting as the maximum (the scan stops at the first nan).
RECURSIVE argmax_scan(_, _, _)
argmax_scan(a, i, best) ==
    IF FltIsNaN(a[best]) \/ i > Len(a) THEN best
    ELSE IF ~FltLeq(a[i], a[best]) THEN argmax_scan(a, i + 1, i)
    ELSE argmax_scan(a, i + 1, best)

argmax(a) == argmax_scan(a, 2, 1)

\* 1 - x, one element of line 243.
one_minus(x) == FltSub(FltOne, x)

\* 2*(p*r)/(p+r), one element of line 246, each operation rounded.
f_score(p, r) == FltDiv(FltMul(FltTwo, FltMul(p, r)), FltAdd(p, r))

\* The values of line 243 and of line 246 over the rates the bounds allow
\* (fp of c[1] negatives, tp of c[2] positives), each computed once.
PMemo ==
    [x \in UNION {{RateMemo[n][fp] : fp \in 0..n} : n \in 1..MaxN} |-> one_minus(x)]

FMemo ==
    [pr \in UNION {{<<PMemo[RateMemo[c[1]][fp]], RateMemo[c[2]][tp]>> :
                        fp \in 0..c[1], tp \in 0..c[2]} :
                   c \in {c \in (1..MaxN) \X (1..MaxN) : c[1] + c[2] <= MaxN}}
        |-> f_score(pr[1], pr[2])]

\* P = 1 - fpr, elementwise.
precision(roc_fpr) ==
    [k \in DOMAIN roc_fpr |->
        IF FltIsNaN(roc_fpr[k]) THEN FltNaN ELSE PMemo[roc_fpr[k]]]

\* f_scores = 2*(P*R)/(P+R), elementwise.
f_score_curve(p, r) ==
    [k \in DOMAIN p |->
        IF FltIsNaN(p[k]) \/ FltIsNaN(r[k]) THEN FltNaN ELSE FMemo[<<p[k], r[k]>>]]

get_best_threshold(roc, f) ==
    [best_threshold |-> roc.thresholds[argmax(f)], max_fscore |-> f[argmax(f)]]

Labels == {0, 1, 2}

\* Score sequences of n samples.  roc_curve looks at the order and the ties
\* of the scores only and reports thresholds as the scores themselves, so
\* the scores are the ranks 1..k, every rank taken.
Scores(n) == {s \in [1..n -> 1..n] : Range(s) = 1..SetMax(Range(s))}

IdleThr ==
    /\ Y_ref = <<>> /\ Y_pred_score = <<>> /\ plot = FALSE /\ thr_pc = "idle"
    /\ fpr = <<>> /\ tpr = <<>> /\ thresholds = <<>>
    /\ P = <<>> /\ R = <<>> /\ f_scores = <<>>
    /\ max_fscore = None /\ best_threshold = None
    /\ thr_ret = None

InitThr ==
    /\ IdleProbs /\ IdleDicts /\ IdleLabel /\ IdleStats /\ IdleBuild
    /\ Y_ref \in SeqsUpTo(Labels, 1, MaxN)
    /\ Y_pred_score \in UNION {Scores(n) : n \in 1..MaxN}
    /\ plot \in BOOLEAN
    /\ thr_pc = "call"
    /\ fpr = <<>> /\ tpr = <<>> /\ thresholds = <<>>
    /\ P = <<>> /\ R = <<>> /\ f_scores = <<>>
    /\ max_fscore = None /\ best_threshold = None
    /\ thr_ret = None

\* roc_curve refuses arrays of different lengths (ValueError), and nothing
\* in get_best_threshold catches it.
GetBestThresholdRaises ==
    /\ thr_pc = "call"
    /\ Len(Y_ref) # Len(Y_pred_score)
    /\ thr_pc' = "raised"
    /\ UNCHANGED <<Y_ref, Y_pred_score, plot, fpr, tpr, thresholds, P, R,
                   f_scores, max_fscore, best_threshold, thr_ret>>
    /\ UNCHANGED <<probVars, dictVars, labVars, statVars, argVars, bldVars>>

\* Lines 240-249, then either the return of line 262 (plot false) or the
\* drawing of lines 252-259 and the call of plt.show() at line 260.
GetBestThreshold ==
    /\ thr_pc = "call"
    /\ Len(Y_ref) = Len(Y_pred_score)
    /\ \E impl \in RocImpls :
         LET roc  == roc_curve(Y_ref, Y_pred_score, impl)
             p    == precision(roc.fpr)
             f    == f_score_curve(p, roc.tpr)
             best == get_best_threshold(roc, f)
         IN  /\ fpr' = roc.fpr
             /\ tpr' = roc.tpr
             /\ thresholds' = roc.thresholds
             /\ P' = p
             /\ R' = roc.tpr
             /\ f_scores' = f
             /\ max_fscore' = best.max_fscore
             /\ best_threshold' = best.best_threshold
             /\ thr_ret' = IF plot THEN thr_ret ELSE best
    /\ thr_pc' = IF plot THEN "show" ELSE "returned"
    /\ UNCHANGED <<Y_ref, Y_pred_score, plot>>
    /\ UNCHANGED <<probVars, dictVars, labVars, statVars, argVars, bldVars>>

\* plt.show() (line 260) runs the event loop of the figure window and
\* comes back when the window is closed (at once under a backend without
\* windows); line 262 then returns the pair.  Nothing makes it come back.
ShowReturns ==
    /\ thr_pc = "show"
    /\ thr_pc' = "returned"
    /\ thr_ret' = [best_threshold |-> best_threshold, max_fscore |-> max_fscore]
    /\ UNCHANGED <<Y_ref, Y_pred_score, plot, fpr, tpr, thresholds, P, R,
                   f_scores, max_fscore, best_threshold>>
    /\ UNCHANGED <<probVars, dictVars, labVars, statVars, argVars, bldVars>>

NextThr == GetBestThreshold \/ ShowReturns \/ GetBestThresholdRaises

SpecThr == InitThr /\ [][NextThr]_vars

(* Inputs get_best_threshold is specified for: labels in {0, 1}, both      *)
(* classes present, one score per label.                                   *)
ValidRef(y) == Range(y) \subseteq {0, 1} /\ Cardinality(Range(y)) = 2
InvalidRef(y) == ~(Range(y) \subseteq {0, 1}) \/ Cardinality(Range(y)) < 2

\* F of the ROC point k the call worked on: 2PR/(P+R) with P = 1 - FPR and
\* R = TPR, in the arithmetic of the code.
ClaimF(k) == f_score_curve(precision(fpr), tpr)[k]

IsFirstMax(i) ==
    /\ \A k \in DOMAIN fpr : FltLeq(ClaimF(k), ClaimF(i))
    /\ \A k \in 1..(i-1) : ~FltLeq(ClaimF(i), ClaimF(k))

ReturnsPoint(i) ==
    /\ thr_ret.best_threshold = thresholds[i]
    /\ thr_ret.max_fscore = ClaimF(i)

\* C2: for every valid input get_best_threshold returns (thresholds[i],
\* F[i]) with F = 2PR/(P+R), P = 1 - FPR, R = TPR, and i the first index at
\* which F attains its maximum.  The code breaks it where P + R = 0 (see C4):
\* F is nan there, argmax picks the nan, and no F value is the maximum.
C2_ReturnsFirstMaxF ==
    (thr_pc = "returned" /\ ValidRef(Y_ref))
        => \E i \in DOMAIN fpr : IsFirstMax(i) /\ ReturnsPoint(i)

\* What the code does keep of C2: the returned pair is the threshold and
\* the f_scores entry of one and the same ROC point, the first nan if there
\* is one and the first maximum otherwise.
BestThresholdIsNumpyArgmax ==
    thr_pc = "returned" =>
        \E i \in DOMAIN f_scores :
            /\ thr_ret = [best_threshold |-> thresholds[i], max_fscore |-> f_scores[i]]
            /\ f_scores[i] = ClaimF(i)
            /\ \A k \in 1..(i-1) : ~FltIsNaN(f_scores[k])
            /\ \/ FltIsNaN(f_scores[i])
               \/ (\A k \in DOMAIN f_scores : ~FltIsNaN(f_scores[k])) /\ IsFirstMax(i)

\* C3: reference labels outside {0, 1}, or of a single class, end in an
\* input-validation error and no (threshold, fScore) pair is returned.
C3_InvalidLabelsRaise ==
    (thr_pc # "call" /\ Len(Y_ref) = Len(Y_pred_score) /\ InvalidRef(Y_ref))
        => (thr_pc = "raised" /\ thr_ret = None)

\* C4: where P + R = 0 the F value is the sentinel 0, and the returned
\* fScore is a defined number in [0, 1].  P and R are never negative, so
\* P + R = 0 exactly where both are 0.
C4_FScoreDefined ==
    (thr_pc = "returned" /\ ValidRef(Y_ref)) =>
        /\ \A k \in DOMAIN f_scores :
              (FltIsZero(P[k]) /\ FltIsZero(R[k])) => FltIsZero(f_scores[k])
        /\ FltIsNum(thr_ret.max_fscore)
        /\ FltLeq(FltZero, thr_ret.max_fscore)
        /\ FltLeq(thr_ret.max_fscore, FltOne)

-----------------------------------------------------------------------------
(* DataFrames: a function from column names to columns, every column a     *)
(* sequence with one entry per row.                                        *)

NumRows(df) == Len(df[CHOOSE c \in DOMAIN df : TRUE])

set_column(df, name, col) == [c \in DOMAIN df \cup {name} |-> IF c = name THEN col ELSE df[c]]

\* Assigning a scalar to a column fills every row with it.
broadcast(df, v) == [i \in 1..NumRows(df) |-> v]

-----------------------------------------------------------------------------
(* contour_probs (experiment_utils.py:216-236).                            *)

\* The rows' feature vectors, one of a few values each.
Features == {"fa", "fb"}
Probs == 0..ProbDen

\* A classifier: the positive-class probability it gives each feature
\* vector (in units of 1/ProbDen), and whether predict_proba raises (not
\* fitted, wrong shape).
Classifiers == [proba : [Features -> Probs], raises : BOOLEAN]

\* clf.predict_proba(X): per row, [P(class 0), P(class 1)].
predict_proba(c, X) ==
    [i \in DOMAIN X |-> <<Frac(ProbDen - c.proba[X[i]], ProbDen),
                          Frac(c.proba[X[i]], ProbDen)>>]

\* cc.pd_to_sklearn: the feature matrix, one row per record, in order.
pd_to_sklearn(df) == df["features"]

Placeholder == Frac(-1, 1)

\* p[1] for p in probs (Python index 1: the second entry).
mel_probs(probs) == [i \in DOMAIN probs |-> probs[i][2]]

\* A slip: the class-0 column of predict_proba.
contour_probs_class0(c, df) ==
    set_column(df, "mel prob",
               [i \in 1..NumRows(df) |-> predict_proba(c, pd_to_sklearn(df))[i][1]])

contour_probs(c, df) ==
    set_column(df, "mel prob", mel_probs(predict_proba(c, pd_to_sklearn(df))))

InitProbs ==
    /\ IdleThr /\ IdleDicts /\ IdleLabel /\ IdleStats /\ IdleBuild
    /\ clf \in Classifiers
    /\ contour_data \in {[features |-> X] : X \in SeqsUpTo(Features, 1, MaxRows)}
    /\ prob_pc = "call"
    /\ prob_ret = None

\* Line 231 has filled the column with -1 when predict_proba raises; the
\* exception leaves the function, the caller's DataFrame keeps the -1.
ContourProbsRaises ==
    /\ prob_pc = "call"
    /\ clf.raises
    /\ contour_data' = set_column(contour_data, "mel prob",
                                  broadcast(contour_data, Placeholder))
    /\ prob_pc' = "raised"
    /\ UNCHANGED <<clf, prob_ret>>
    /\ UNCHANGED <<thrVars, dictVars, labVars, statVars, argVars, bldVars>>

ContourProbs ==
    /\ prob_pc = "call"
    /\ ~clf.raises
    /\ contour_data' = contour_probs(clf, contour_data)
    /\ prob_ret' = contour_data'
    /\ prob_pc' = "returned"
    /\ UNCHANGED clf
    /\ UNCHANGED <<thrVars, dictVars, labVars, statVars, argVars, bldVars>>

NextProbs == ContourProbs \/ ContourProbsRaises

SpecProbs == InitProbs /\ [][NextProbs]_vars

\* C7: contour_probs returns as many records as it was given, in the same
\* order, the i-th carrying as its melody probability the class-1
\* probability the classifier gave the i-th feature row, a number in [0, 1]
\* and never the placeholder -1.
C7_ProbsPerRowInOrder ==
    [][(prob_pc = "call" /\ prob_pc' = "returned") =>
          /\ DOMAIN prob_ret' = DOMAIN contour_data \cup {"mel prob"}
          /\ \A c \in DOMAIN contour_data : prob_ret'[c] = contour_data[c]
          /\ DOMAIN prob_ret'["mel prob"] = 1..NumRows(contour_data)
          /\ \A i \in 1..NumRows(contour_data) :
                LET p == prob_ret'["mel prob"][i]
                IN  /\ FEq(p, Frac(clf.proba[contour_data["features"][i]], ProbDen))
                    /\ FLeq(Zero, p) /\ FLeq(p, One)
                    /\ ~FEq(p, Placeholder)]_vars

\* C7 happens: a call returned for several rows whose probabilities differ
\* and are not 1/2 (so the two classes' columns differ).
C7_Witness ==
    /\ prob_pc = "returned"
    /\ NumRows(prob_ret) >= 2
    /\ \E i, j \in 1..NumRows(prob_ret) :
          /\ ~FEq(prob_ret["mel prob"][i], prob_ret["mel prob"][j])
          /\ FEq(prob_ret["mel prob"][i], One)

-----------------------------------------------------------------------------
(* cc.label_contours, as the Labeler's contract states it: label = 1 where *)
(* overlap > olap_thresh, else 0; the other columns are kept.              *)

FGt(x, y) == FLeq(y, x) /\ ~FLeq(x, y)

label_contours(df, th) ==
    set_column(df, "labels",
               [i \in 1..NumRows(df) |-> IF FGt(df["overlap"][i], th) THEN 1 ELSE 0])

-----------------------------------------------------------------------------
(* label_all_contours (experiment_utils.py:180-213).                       *)

label_dict(d, th) == [key \in DOMAIN d |-> label_contours(d[key], th)]

\* A slip: the validation and training maps change places in the return.
label_all_contours_swapped(train, valid, test, th) ==
    <<label_dict(valid, th), label_dict(train, th), label_dict(test, th)>>

\* A slip: the loop over the test map is missing.
label_all_contours_no_test(train, valid, test, th) ==
    <<label_dict(train, th), label_dict(valid, th), test>>

label_all_contours(train, valid, test, th) ==
    <<label_dict(train, th), label_dict(valid, th), label_dict(test, th)>>

Tracks == {"t1", "t2"}

\* Overlaps the maps hold, and thresholds in [0, 1) around them.
LabelOverlaps   == {Frac(0, 1), Frac(3, 5), Frac(9, 10)}
LabelThresholds == {Frac(0, 1), Frac(3, 5)}

OverlapFrame(col) == [overlap |-> col]

\* The maps compute_all_overlaps leaves: a track's contours are the same in
\* every map that holds the track.
InitLabel ==
    /\ IdleThr /\ IdleProbs /\ IdleStats /\ IdleBuild
    /\ \E data \in [Tracks -> SeqsUpTo(LabelOverlaps, 1, MaxContours)] :
       \E ktrain, kvalid, ktest \in SUBSET Tracks :
          /\ train_contour_dict = [t \in ktrain |-> OverlapFrame(data[t])]
          /\ valid_contour_dict = [t \in kvalid |-> OverlapFrame(data[t])]
          /\ test_contour_dict  = [t \in ktest  |-> OverlapFrame(data[t])]
    /\ olap_thresh = None
    /\ lab_pc = "unlabelled"

\* train, valid, test = label_all_contours(train, valid, test, th)
LabelAllContours ==
    /\ lab_pc \in {"unlabelled", "labelled"}
    /\ \E th \in LabelThresholds :
          LET ret == label_all_contours(train_contour_dict, valid_contour_dict,
                                        test_contour_dict, th)
          IN  /\ train_contour_dict' = ret[1]
              /\ valid_contour_dict' = ret[2]
              /\ test_contour_dict'  = ret[3]
              /\ olap_thresh' = th
    /\ lab_pc' = "labelled"
    /\ UNCHANGED <<thrVars, probVars, statVars, argVars, bldVars>>

NextLabel == LabelAllContours

SpecLabel == InitLabel /\ [][NextLabel]_vars

RowLabelled(df, i, th) ==
    /\ "labels" \in DOMAIN df
    /\ df["labels"][i] \in {0, 1}
    /\ df["labels"][i] = 1 <=> FGt(df["overlap"][i], th)

DictLabelled(d, th) ==
    \A key \in DOMAIN d : \A i \in 1..NumRows(d[key]) : RowLabelled(d[key], i, th)

\* C1: after label_all_contours every record of every track of the three
\* maps has label 1 if and only if its overlap is strictly greater than the
\* threshold, and label 0 otherwise.
C1_LabelIffOverlapAbove ==
    lab_pc = "labelled" =>
        /\ DictLabelled(train_contour_dict, olap_thresh)
        /\ DictLabelled(valid_contour_dict, olap_thresh)
        /\ DictLabelled(test_contour_dict, olap_thresh)

HasOverlap(d, o) ==
    \E key \in DOMAIN d : \E i \in 1..NumRows(d[key]) : FEq(d[key]["overlap"][i], o)

\* C1 happens: the three maps are labelled, with the test map holding an
\* overlap equal to a positive threshold (label 0) and one above it.
C1_Witness ==
    /\ lab_pc = "labelled"
    /\ train_contour_dict # <<>> /\ valid_contour_dict # <<>>
    /\ FGt(olap_thresh, Zero)
    /\ HasOverlap(test_contour_dict, olap_thresh)
    /\ \E key \in DOMAIN test_contour_dict : 1 \in Range(test_contour_dict[key]["labels"])

\* C9: labelling again with the same threshold changes no label, no overlap
\* and no key set.
C9_LabelIdempotent ==
    [][(lab_pc = "labelled" /\ lab_pc' = "labelled" /\ olap_thresh' = olap_thresh)
          => dictVars' = dictVars]_vars

\* C9 happens: labelled maps with different train and validation keys, both
\* labels present.
C9_Witness ==
    /\ lab_pc = "labelled"
    /\ DOMAIN train_contour_dict # DOMAIN valid_contour_dict
    /\ \E key \in DOMAIN train_contour_dict :
          {0, 1} \subseteq Range(train_contour_dict[key]["labels"])

-----------------------------------------------------------------------------
(* olap_stats (experiment_utils.py:151-177).                               *)

RECURSIVE FSum(_)
FSum(col) == IF col = <<>> THEN Zero ELSE FAdd(Head(col), FSum(Tail(col)))

RECURSIVE FMin(_)
FMin(col) == IF Len(col) = 1 THEN col[1]
             ELSE LET m == FMin(Tail(col)) IN IF FLeq(col[1], m) THEN col[1] ELSE m

RECURSIVE FMax(_)
FMax(col) == IF Len(col) = 1 THEN col[1]
             ELSE LET m == FMax(Tail(col)) IN IF FLeq(m, col[1]) THEN col[1] ELSE m

\* Series.describe(), without the std and the quartiles: of an empty series
\* the count is 0 and the rest is nan.
describe(col) ==
    [count |-> Len(col),
     mean  |-> FDiv(FSum(col), Frac(Len(col), 1)),
     min   |-> IF col = <<>> THEN NaN ELSE FMin(col),
     max   |-> IF col = <<>> THEN NaN ELSE FMax(col)]

\* cc.join_contours: the list's series, one after the other.
RECURSIVE join_contours(_)
join_contours(list) == IF list = <<>> THEN <<>> ELSE Head(list) \o join_contours(Tail(list))

\* red_list: the overlap column of every value of the map.  A dict gives
\* its values in no promised order; nothing describe() returns depends on
\* it, and the model takes the keys in one fixed order.
RECURSIVE KeySeq(_)
KeySeq(K) == IF K = {} THEN <<>>
             ELSE LET k == CHOOSE x \in K : TRUE IN <<k>> \o KeySeq(K \ {k})

red_list(d) == LET keys == KeySeq(DOMAIN d) IN [j \in 1..Len(keys) |-> d[keys[j]]["overlap"]]

IsPositive(o) == FGt(o, Zero)
IsZero(o) == FEq(o, Zero)
IsNotNegative(o) == FLeq(Zero, o)

\* A slip: >= 0 where > 0 is meant.
olap_stats_geq(d) ==
    LET overlap_dat == join_contours(red_list(d))
    IN  [partial_olap_stats |-> describe(SelectSeq(overlap_dat, IsNotNegative)),
         zero_olap_stats    |-> describe(SelectSeq(overlap_dat, IsZero))]

olap_stats(d) ==
    LET overlap_dat == join_contours(red_list(d))
    IN  [partial_olap_stats |-> describe(SelectSeq(overlap_dat, IsPositive)),
         zero_olap_stats    |-> describe(SelectSeq(overlap_dat, IsZero))]

\* The overlaps of the maps olap_stats is run on.
StatsOverlaps == {Frac(0, 1), Frac(1, 5), Frac(3, 5), Frac(9, 10)}

\* A non-empty training map, every track with at least one contour.
InitStats ==
    /\ IdleThr /\ IdleProbs /\ IdleLabel /\ IdleBuild
    /\ \E keys \in SUBSET Tracks \ {{}} :
          train_contour_dict \in [keys -> {OverlapFrame(col) :
                                              col \in SeqsUpTo(StatsOverlaps, 1, MaxRows)}]
    /\ valid_contour_dict = <<>>
    /\ test_contour_dict = <<>>
    /\ stats_pc = "call"
    /\ stats_ret = None

OlapStats ==
    /\ stats_pc = "call"
    /\ stats_ret' = olap_stats(train_contour_dict)
    /\ stats_pc' = "returned"
    /\ UNCHANGED <<thrVars, probVars, dictVars, labVars, argVars, bldVars>>

NextStats == OlapStats

SpecStats == InitStats /\ [][NextStats]_vars

OverlapAt(d, r) == d[r[1]]["overlap"][r[2]]

\* C8: olap_stats splits the overlaps of all records of all tracks into
\* those equal to 0 and those above 0; the two counts are the numbers of
\* such records, they add up to the number of records, and the map is left
\* as it was.
C8_StatsPartition ==
    [][(stats_pc = "call" /\ stats_pc' = "returned") =>
          LET d    == train_contour_dict
              recs == UNION {{<<key, i>> : i \in 1..NumRows(d[key])} : key \in DOMAIN d}
              zero == {r \in recs : OverlapAt(d, r).n = 0}
              pos  == {r \in recs : OverlapAt(d, r).n > 0}
          IN  /\ stats_ret'.zero_olap_stats.count = Cardinality(zero)
              /\ stats_ret'.partial_olap_stats.count = Cardinality(pos)
              /\ stats_ret'.zero_olap_stats.count + stats_ret'.partial_olap_stats.count
                    = Cardinality(recs)
              /\ train_contour_dict' = train_contour_dict]_vars

\* C8 happens, on the example of the specification: overlaps (0, 0.6, 0.9)
\* and (0, 0.2) give 2 zero and 3 positive overlaps, of mean 17/30.
C8_Witness ==
    /\ stats_pc = "returned"
    /\ train_contour_dict =
          [t \in Tracks |-> IF t = "t1"
                            THEN OverlapFrame(<<Frac(0, 1), Frac(3, 5), Frac(9, 10)>>)
                            ELSE OverlapFrame(<<Frac(0, 1), Frac(1, 5)>>)]
    /\ stats_ret.zero_olap_stats.count = 2
    /\ stats_ret.partial_olap_stats.count = 3
    /\ FEq(stats_ret.partial_olap_stats.mean, Frac(17, 30))

-----------------------------------------------------------------------------
(* The data files.  A path is (directory, track, suffix); Disk gives the   *)
(* content of every file there may be, fs the files that exist.            *)

MelTypes == {1, 2, 3}

\* "MELODY%s" % str(meltype) and "MELODY%s.csv" % str(meltype)
mel_dir(mt)      == CASE mt = 1 -> "MELODY1" [] mt = 2 -> "MELODY2" [] mt = 3 -> "MELODY3"
annot_suffix(mt) == CASE mt = 1 -> "MELODY1.csv" [] mt = 2 -> "MELODY2.csv"
                      [] mt = 3 -> "MELODY3.csv"

contours_path  == "melodia_contours"
contour_suffix == "MIX_vamp_melodia-contours_melodia-contours_contoursall.csv"

contour_fpath(track)   == <<contours_path, track, contour_suffix>>
annot_fpath(track, mt) == <<mel_dir(mt), track, annot_suffix(mt)>>

ContourPaths == {contour_fpath(t) : t \in Tracks}
AnnotPaths   == {annot_fpath(t, mt) : t \in Tracks, mt \in MelTypes}
AllPaths     == ContourPaths \cup AnnotPaths

\* A contour file: per contour its features and the time frames it spans.
\* An annotation file: the time frames that carry the melody.
ContourFile(track) ==
    IF track = "t1"
    THEN [features |-> <<"fa", "fb">>, frames |-> <<{1, 2}, {3, 4}>>]
    ELSE [features |-> <<"fb", "fa", "fa">>, frames |-> <<{1}, {2, 3, 4}, {4}>>]

AnnotFile(track, mt) ==
    IF track = "t1"
    THEN CASE mt = 1 -> [time |-> <<1, 2, 3>>]
           [] mt = 2 -> [time |-> <<3, 4>>]
           [] mt = 3 -> [time |-> <<>>]
    ELSE CASE mt = 1 -> [time |-> <<2, 3>>]
           [] mt = 2 -> [time |-> <<1, 4>>]
           [] mt = 3 -> [time |-> <<1, 2, 3, 4>>]

Disk(path) ==
    IF path \in ContourPaths
    THEN ContourFile(path[2])
    ELSE AnnotFile(path[2], CHOOSE mt \in MelTypes : mel_dir(mt) = path[1])

\* cc.load_contour_data / cc.load_annotation: the file's content; a missing
\* file is an error that the caller sees.
load_contour_data(path) == Disk(path)
load_annotation(path)   == Disk(path)

\* cc.compute_overlap: the contours with, for each, the fraction of its
\* frames that the annotation covers.  The annotation is left as it is.
compute_overlap(c, a) ==
    set_column(c, "overlap",
               [i \in 1..NumRows(c) |->
                   Frac(Cardinality(c["frames"][i] \cap Range(a["time"])),
                        Cardinality(c["frames"][i]))])

-----------------------------------------------------------------------------
(* get_data_files (experiment_utils.py:41-74).  MEDLEYDB_PATH is taken to   *)
(* be set; the contour file is read first, then the annotation file.       *)

get_data_files(track, mt, files) ==
    IF contour_fpath(track) \notin files \/ annot_fpath(track, mt) \notin files
    THEN [raised |-> TRUE, cdat |-> None, adat |-> None]
    ELSE [raised |-> FALSE,
          cdat   |-> load_contour_data(contour_fpath(track)),
          adat   |-> load_annotation(annot_fpath(track, mt))]

-----------------------------------------------------------------------------
(* compute_all_overlaps (experiment_utils.py:77-148).                      *)

\* d[key] = value
dict_set(d, key, value) == [k \in DOMAIN d \cup {key} |-> IF k = key THEN value ELSE d[k]]

\* The function's locals.
Frame == [raised |-> FALSE, cdat |-> cdat, adat |-> adat,
          train_contour_dict |-> train_contour_dict,
          valid_contour_dict |-> valid_contour_dict,
          valid_annot_dict   |-> valid_annot_dict,
          test_contour_dict  |-> test_contour_dict,
          test_annot_dict    |-> test_annot_dict]

EmptyFrame == [raised |-> FALSE, cdat |-> None, adat |-> None,
               train_contour_dict |-> <<>>,
               valid_contour_dict |-> <<>>, valid_annot_dict |-> <<>>,
               test_contour_dict  |-> <<>>, test_annot_dict  |-> <<>>]

\* The body of the three loops (lines 109-110, 125-127, 142-144) for one
\* track; an error of get_data_files leaves the function at once.
body_after_load(split, fr, track, data) ==
    LET f == [fr EXCEPT !.cdat = data.cdat, !.adat = data.adat]
        o == compute_overlap(data.cdat, data.adat)
    IN  CASE split = "train" ->
               [f EXCEPT !.train_contour_dict = dict_set(@, track, o)]
          [] split = "valid" ->
               [f EXCEPT !.valid_annot_dict = dict_set(@, track, data.adat),
                         !.valid_contour_dict = dict_set(@, track, o)]
          [] split = "test" ->
               [f EXCEPT !.test_annot_dict = dict_set(@, track, data.adat),
                         !.test_contour_dict = dict_set(@, track, o)]

\* A slip: a track whose files are missing is skipped (try/except: continue).
loop_body_skips(split, fr, track, mt, files) ==
    LET data == get_data_files(track, mt, files)
    IN  IF data.raised THEN fr ELSE body_after_load(split, fr, track, data)

\* A slip: the test loop keeps its annotations in valid_annot_dict.
loop_body_wrong_dict(split, fr, track, mt, files) ==
    LET data == get_data_files(track, mt, files)
    IN  IF data.raised THEN [fr EXCEPT !.raised = TRUE]
        ELSE IF split = "test"
        THEN [fr EXCEPT !.cdat = data.cdat, !.adat = data.adat,
                        !.valid_annot_dict = dict_set(@, track, data.adat),
                        !.test_contour_dict =
                            dict_set(@, track, compute_overlap(data.cdat, data.adat))]
        ELSE body_after_load(split, fr, track, data)

\* A slip: the overlap is computed against the annotation of the track
\* loaded before (adat read before it is assigned).
loop_body_stale(split, fr, track, mt, files) ==
    LET data == get_data_files(track, mt, files)
    IN  IF data.raised THEN [fr EXCEPT !.raised = TRUE]
        ELSE body_after_load(split, fr, track,
                             [data EXCEPT !.adat = IF fr.adat = None THEN data.adat
                                                   ELSE fr.adat])

loop_body(split, fr, track, mt, files) ==
    LET data == get_data_files(track, mt, files)
    IN  IF data.raised THEN [fr EXCEPT !.raised = TRUE]
        ELSE body_after_load(split, fr, track, data)

\* return train_contour_dict, valid_contour_dict, valid_annot_dict,
\*        test_contour_dict, test_annot_dict
returned_maps(fr) ==
    [train_contour_dict |-> fr.train_contour_dict,
     valid_contour_dict |-> fr.valid_contour_dict,
     valid_annot_dict   |-> fr.valid_annot_dict,
     test_contour_dict  |-> fr.test_contour_dict,
     test_annot_dict    |-> fr.test_annot_dict]

\* The whole function on given lists: the three loops one after the other.
ItemsOf(split, list) == [i \in 1..Len(list) |-> <<split, list[i]>>]

RECURSIVE run_loops(_, _, _, _)
run_loops(fr, items, mt, files) ==
    IF items = <<>> \/ fr.raised THEN fr
    ELSE run_loops(loop_body(items[1][1], fr, items[1][2], mt, files),
                   Tail(items), mt, files)

compute_all_overlaps(train, valid, test, mt, files) ==
    LET fr == run_loops(EmptyFrame,
                        ItemsOf("train", train) \o ItemsOf("valid", valid)
                            \o ItemsOf("test", test),
                        mt, files)
    IN  IF fr.raised THEN None ELSE returned_maps(fr)

TrackLists ==
    {ls \in SeqsUpTo(Tracks, 0, MaxTracks) \X SeqsUpTo(Tracks, 0, MaxTracks)
              \X SeqsUpTo(Tracks, 0, MaxTracks) :
        Len(ls[1]) + Len(ls[2]) + Len(ls[3]) <= MaxTracks}

InitArgs ==
    /\ \E ls \in TrackLists :
          /\ train_tracks = ls[1]
          /\ valid_tracks = ls[2]
          /\ test_tracks = ls[3]
    /\ meltype \in MelTypes
    /\ \E missing \in SUBSET AllPaths :
          /\ Cardinality(missing) <= MaxMissing
          /\ fs = AllPaths \ missing

InitLocals ==
    /\ IdleDicts
    /\ cdat = None /\ adat = None
    /\ valid_annot_dict = <<>> /\ test_annot_dict = <<>>
    /\ loaded = <<>>
    /\ build_ret = None

Init ==
    /\ IdleThr /\ IdleProbs /\ IdleLabel /\ IdleStats
    /\ InitArgs
    /\ InitLocals
    /\ b_pc = "train" /\ b_i = 1
    /\ pending = {}

SetFrame(fr) ==
    /\ cdat' = fr.cdat /\ adat' = fr.adat
    /\ train_contour_dict' = fr.train_contour_dict
    /\ valid_contour_dict' = fr.valid_contour_dict
    /\ valid_annot_dict'   = fr.valid_annot_dict
    /\ test_contour_dict'  = fr.test_contour_dict
    /\ test_annot_dict'    = fr.test_annot_dict

ListOf(split) == CASE split = "train" -> train_tracks
                   [] split = "valid" -> valid_tracks
                   [] split = "test"  -> test_tracks

\* One pass of the running loop over its next track.
Iteration(split) ==
    /\ b_pc = split
    /\ b_i <= Len(ListOf(split))
    /\ LET track == ListOf(split)[b_i]
           fr    == loop_body(split, Frame, track, meltype, fs)
       IN  /\ loaded' = Append(loaded, track)
           /\ IF fr.raised
              THEN /\ b_pc' = "raised"
                   /\ UNCHANGED <<b_i, cdat, adat, dictVars, valid_annot_dict,
                                  test_annot_dict>>
              ELSE /\ SetFrame(fr)
                   /\ b_i' = b_i + 1
                   /\ b_pc' = b_pc
    /\ UNCHANGED <<pending, build_ret>>
    /\ UNCHANGED <<thrVars, probVars, labVars, statVars, argVars>>

TrainIteration == Iteration("train")
ValidIteration == Iteration("valid")
TestIteration  == Iteration("test")

\* The end of a loop: on to the next one (lines 113-122, 130-139).
LoopEnd(split, next) ==
    /\ b_pc = split
    /\ b_i > Len(ListOf(split))
    /\ b_pc' = next
    /\ b_i' = 1
    /\ UNCHANGED <<pending, cdat, adat, dictVars, valid_annot_dict, test_annot_dict,
                   loaded, build_ret>>
    /\ UNCHANGED <<thrVars, probVars, labVars, statVars, argVars>>

TrainLoopEnd == LoopEnd("train", "valid")
ValidLoopEnd == LoopEnd("valid", "test")

\* Lines 147-148.
Return ==
    /\ b_pc = "test"
    /\ b_i > Len(test_tracks)
    /\ build_ret' = returned_maps(Frame)
    /\ b_pc' = "returned"
    /\ UNCHANGED <<b_i, pending, cdat, adat, dictVars, valid_annot_dict,
                   test_annot_dict, loaded>>
    /\ UNCHANGED <<thrVars, probVars, labVars, statVars, argVars>>

Next ==
    \/ TrainIteration
    \/ TrainLoopEnd
    \/ ValidIteration
    \/ ValidLoopEnd
    \/ TestIteration
    \/ Return

Spec == Init /\ [][Next]_vars

-----------------------------------------------------------------------------
(* The per-track steps of compute_all_overlaps taken in any order (any     *)
(* permutation of each list, the three lists interleaved), the results     *)
(* stored by track id as each step ends.                                   *)

AllItems ==
    {<<"train", i>> : i \in 1..Len(train_tracks)}
        \cup {<<"valid", i>> : i \in 1..Len(valid_tracks)}
        \cup {<<"test", i>> : i \in 1..Len(test_tracks)}

InitOrder ==
    /\ IdleThr /\ IdleProbs /\ IdleLabel /\ IdleStats
    /\ InitArgs
    /\ InitLocals
    /\ b_pc = "steps" /\ b_i = 0
    /\ pending = AllItems

OrderStep ==
    /\ b_pc = "steps"
    /\ \E item \in pending :
          LET track == ListOf(item[1])[item[2]]
              fr    == loop_body(item[1], Frame, track, meltype, fs)
          IN  /\ loaded' = Append(loaded, track)
              /\ IF fr.raised
                 THEN /\ b_pc' = "raised"
                      /\ UNCHANGED <<pending, cdat, adat, dictVars, valid_annot_dict,
                                     test_annot_dict>>
                 ELSE /\ SetFrame(fr)
                      /\ pending' = pending \ {item}
                      /\ b_pc' = b_pc
    /\ UNCHANGED <<b_i, build_ret>>
    /\ UNCHANGED <<thrVars, probVars, labVars, statVars, argVars>>

OrderReturn ==
    /\ b_pc = "steps"
    /\ pending = {}
    /\ build_ret' = returned_maps(Frame)
    /\ b_pc' = "returned"
    /\ UNCHANGED <<b_i, pending, cdat, adat, dictVars, valid_annot_dict,
                   test_annot_dict, loaded>>
    /\ UNCHANGED <<thrVars, probVars, labVars, statVars, argVars>>

NextOrder == OrderStep \/ OrderReturn

SpecOrder == InitOrder /\ [][NextOrder]_vars

-----------------------------------------------------------------------------
(* Claims about compute_all_overlaps.                                      *)

\* The track ids in the order the function as written reaches them.
SeqTracks == train_tracks \o valid_tracks \o test_tracks

FileMissing(track) ==
    contour_fpath(track) \notin fs \/ annot_fpath(track, meltype) \notin fs

MissingAt == {k \in DOMAIN SeqTracks : FileMissing(SeqTracks[k])}

\* C5: when a data file of a listed track is missing, compute_all_overlaps
\* ends in the error of that load: the tracks before it were loaded once
\* each and in order, the failing track is not skipped and not loaded
\* again, no later track is loaded, and no map is returned.
C5_MissingFileAborts ==
    MissingAt # {} =>
        LET first == SetMin(MissingAt)
        IN  /\ b_pc # "returned"
            /\ build_ret = None
            /\ Len(loaded) <= first
            /\ loaded = SubSeq(SeqTracks, 1, Len(loaded))
            /\ b_pc = "raised" <=> Len(loaded) = first
            /\ b_pc # "raised" => ENABLED Next

\* C5 happens: the run ended in the error after maps were filled for
\* earlier tracks and with a later track still to come.
C5_Witness ==
    /\ b_pc = "raised"
    /\ Len(loaded) >= 2
    /\ Len(loaded) < Len(SeqTracks)
    /\ build_ret = None
    /\ train_contour_dict # <<>>

Overlapped(track) ==
    compute_overlap(ContourFile(track), AnnotFile(track, meltype))

ContourMapOf(d, list) ==
    /\ DOMAIN d = Range(list)
    /\ \A t \in Range(list) : d[t] = Overlapped(t)

AnnotMapOf(d, list) ==
    /\ DOMAIN d = Range(list)
    /\ \A t \in Range(list) : d[t] = AnnotFile(t, meltype)

\* C6: on return each contour map has exactly the track ids of its list as
\* keys and the overlap-augmented contours of each track as values; the
\* validation and test annotation maps have the same keys and hold the
\* annotation as loaded; no annotation is kept for a track that is only in
\* the training list.
C6_ReturnedMaps ==
    b_pc = "returned" =>
        /\ DOMAIN build_ret = {"train_contour_dict", "valid_contour_dict",
                               "valid_annot_dict", "test_contour_dict",
                               "test_annot_dict"}
        /\ ContourMapOf(build_ret.train_contour_dict, train_tracks)
        /\ ContourMapOf(build_ret.valid_contour_dict, valid_tracks)
        /\ ContourMapOf(build_ret.test_contour_dict, test_tracks)
        /\ AnnotMapOf(build_ret.valid_annot_dict, valid_tracks)
        /\ AnnotMapOf(build_ret.test_annot_dict, test_tracks)
        /\ \A t \in Range(train_tracks) \ (Range(valid_tracks) \cup Range(test_tracks)) :
              t \notin DOMAIN build_ret.valid_annot_dict
                          \cup DOMAIN build_ret.test_annot_dict

\* C6 happens: a return with a track in each list, the training track in
\* no other list.
C6_Witness ==
    /\ b_pc = "returned"
    /\ train_tracks # <<>> /\ valid_tracks # <<>> /\ test_tracks # <<>>
    /\ Range(train_tracks) \cap (Range(valid_tracks) \cup Range(test_tracks)) = {}
    /\ build_ret.test_annot_dict # <<>>

\* C10: whatever the order of the per-track steps, the outcome is that of
\* the function as written on the lists as given: the same five maps, or
\* no maps (also with a track id more than once in a list).
C10_OrderIndependent ==
    b_pc \in {"returned", "raised"} =>
        build_ret = compute_all_overlaps(train_tracks, valid_tracks, test_tracks,
                                         meltype, fs)

HasRepeat(list) == \E i, j \in DOMAIN list : i # j /\ list[i] = list[j]

\* C10 happens: maps returned after steps taken in another order than the
\* lists give, a validation track loaded first, a list naming a track twice.
C10_Witness ==
    /\ b_pc = "returned"
    /\ loaded # SeqTracks
    /\ train_tracks # <<>>
    /\ valid_tracks # <<>>
    /\ loaded[1] = valid_tracks[Len(valid_tracks)]
    /\ HasRepeat(train_tracks) \/ HasRepeat(valid_tracks)

=============================================================================
